---------------------------- MODULE Spec2Model ----------------------------
(***************************************************************************)
(* Model of the execution context of src/exec/context.rs: the formatting   *)
(* state threaded through the event stream, the page, stack and paragraph  *)
(* builders, and the Last automaton that coalesces soft spacing.           *)
(*                                                                         *)
(* An Option<T> is a sequence of length at most one (<<>> is None), so     *)
(* that Vec::extend(option) is concatenation.  A string is a sequence of   *)
(* one-character strings.                                                  *)
(***************************************************************************)
EXTENDS Integers, Sequences, FiniteSets, TLC

VARIABLES
    state,   \* ExecContext::state, the active formatting state
    diags,   \* ExecContext::diags, the set of diagnostics
    tree,    \* ExecContext::tree.runs, the finished page runs
    page,    \* ExecContext::page, Option<PageBuilder>
    stack,   \* ExecContext::stack, the active StackBuilder with its ParBuilder
    frames,  \* the locals (snapshot, page, stack) of the exec_group calls in
             \* progress, innermost last
    ret,     \* the StackNode the last exec_group returned, if any
    status,  \* "running"; "finished" once finish has consumed the context;
             \* "panicked" once its assertion has failed
    steps    \* the number of calls made on the context

vars == <<state, diags, tree, page, stack, frames, ret, status, steps>>

---------------------------------------------------------------------------
(* Bounds of the model. *)

\* Number of calls the evaluator makes on one context.
MaxEvents == 4
\* Nesting depth of exec_group calls.
MaxDepth == 2
\* Length of the font family list (set_monospace inserts at the front).
MaxFamilies == 2

(* Inputs of the operations. *)

None == <<>>
Some(x) == <<x>>
\* The last element of a non-empty sequence.
Top(fs) == fs[Len(fs)]

Aligns == {"Left", "Right"}
FontSizes == {10, 20}
Pages == {[size |-> "a4", margins |-> 25], [size |-> "a5", margins |-> 15]}
\* Amounts given to push_spacing; disjoint from every resolved paragraph or
\* word spacing, so that a spacing child tells which call inserted it.
Amounts == {1, 3}
Nodes == {"img"}
Spans == {"s1", "s2"}
DefaultSpan == "s0"
Texts == {<<"a">>, <<"a", "\n", "b">>}

---------------------------------------------------------------------------
(* The formatting state (super::State) as far as this file reads it.  The   *)
(* methods of State live outside this file: a resolved length is a function *)
(* of the font size, the resolved text properties of the font state.  No    *)
(* operation of the context branches on a resolved value.                   *)

BaseState ==
    [ families |-> <<"Serif">>,
      size     |-> 10,
      aligns   |-> [main |-> "Start", cross |-> "Left"],
      dir      |-> "LTR",
      page     |-> [size |-> "a4", margins |-> 25] ]

\* state.font.resolve_size()
ResolveSize(st) == st.size

\* state.font.resolve_props()
ResolveProps(st) == [families |-> st.families, size |-> st.size]

\* state.par.spacing.resolve(em): a share of the font size, here all of it
ParSpacing(st) == ResolveSize(st)

\* state.par.word_spacing.resolve(em): a share of the font size, here a fifth
WordSpacing(st) == ResolveSize(st) \div 5

\* state.par.leading.resolve(em): a share of the font size, here a half
Leading(st) == ResolveSize(st) \div 2

---------------------------------------------------------------------------
(* Last: the finite state machine for spacing coalescing. *)

LastNone == [tag |-> "None"]
LastAnyState == [tag |-> "Any"]
LastSoftState(item) == [tag |-> "Soft", item |-> item]

\* Mutant of Last::any: the state None is left as it is.
LastAnyKeepNone(last) ==
    [ out  |-> IF last.tag = "Soft" THEN Some(last.item) ELSE None,
      last |-> IF last.tag = "None" THEN LastNone ELSE LastAnyState ]

\* Last::any: the pending soft item, if any, and the state Any.
LastAny(last) ==
    [ out  |-> IF last.tag = "Soft" THEN Some(last.item) ELSE None,
      last |-> LastAnyState ]

\* Mutant of Last::soft: the item is stored in every state.
LastSoftAlways(last, soft) == LastSoftState(soft)

\* Mutant of Last::soft: a later soft item replaces the pending one.
LastSoftLatest(last, soft) ==
    IF last.tag \in {"Any", "Soft"} THEN LastSoftState(soft) ELSE last

\* Last::soft
LastSoft(last, soft) ==
    IF last.tag = "Any" THEN LastSoftState(soft) ELSE last

\* Mutant of Last::hard: the pending soft item survives a hard item.
LastHardKeep(last) == last

\* Last::hard
LastHard(last) == LastNone

---------------------------------------------------------------------------
(* ParBuilder *)

ParSpacingChild(amount) == [kind |-> "Spacing", amount |-> amount]
ParLinebreak == [kind |-> "Linebreak"]
ParAny(node, align) == [kind |-> "Any", node |-> node, align |-> align]
ParText(text, props, align) ==
    [kind |-> "Text", text |-> text, props |-> props, align |-> align]

ParNew(st) ==
    [ aligns       |-> st.aligns,
      dir          |-> st.dir,
      line_spacing |-> Leading(st),
      children     |-> <<>>,
      last         |-> LastNone ]

ParPush(pb, child) ==
    LET a == LastAny(pb.last)
    IN  [pb EXCEPT !.children = (pb.children \o a.out) \o <<child>>,
                   !.last = a.last]

\* Mutant of ParBuilder::push_text: never merges into the previous text run.
ParPushTextNoMerge(pb, text, st) ==
    LET a == LastAny(pb.last)
    IN  [pb EXCEPT !.children = Append(pb.children \o a.out,
                                       ParText(text, ResolveProps(st), st.aligns.cross)),
                   !.last = a.last]

\* Mutant of ParBuilder::push_text: merges in front of the previous text.
ParPushTextPrepend(pb, text, st) ==
    LET a        == LastAny(pb.last)
        children == pb.children \o a.out
        align    == st.aligns.cross
        props    == ResolveProps(st)
        n        == Len(children)
    IN  IF /\ n > 0
           /\ children[n].kind = "Text"
           /\ children[n].align = align
           /\ children[n].props = props
        THEN [pb EXCEPT !.children =
                            [children EXCEPT ![n].text = text \o children[n].text],
                        !.last = a.last]
        ELSE [pb EXCEPT !.children = Append(children, ParText(text, props, align)),
                        !.last = a.last]

ParPushText(pb, text, st) ==
    LET a        == LastAny(pb.last)
        children == pb.children \o a.out
        align    == st.aligns.cross
        props    == ResolveProps(st)
        n        == Len(children)
    IN  IF /\ n > 0
           /\ children[n].kind = "Text"
           /\ children[n].align = align
           /\ children[n].props = props
        THEN [pb EXCEPT !.children =
                            [children EXCEPT ![n].text = children[n].text \o text],
                        !.last = a.last]
        ELSE [pb EXCEPT !.children = Append(children, ParText(text, props, align)),
                        !.last = a.last]

ParPushSoft(pb, child) == [pb EXCEPT !.last = LastSoft(pb.last, child)]

\* Mutant of ParBuilder::push_hard: appends without resetting the automaton.
ParPushHardKeep(pb, child) == [pb EXCEPT !.children = Append(pb.children, child)]

ParPushHard(pb, child) ==
    [pb EXCEPT !.last = LastHard(pb.last), !.children = Append(pb.children, child)]

ParNode(pb) ==
    [type |-> "Par", dir |-> pb.dir, line_spacing |-> pb.line_spacing,
     children |-> pb.children]

StackAny(node, aligns) == [kind |-> "Any", node |-> node, aligns |-> aligns]
StackSpacing(amount) == [kind |-> "Spacing", amount |-> amount]

\* ParBuilder::build: Option<StackChild>
ParBuild(pb) ==
    IF pb.children # <<>> THEN Some(StackAny(ParNode(pb), pb.aligns)) ELSE None

---------------------------------------------------------------------------
(* StackBuilder *)

StackNew(st) ==
    [ dirs     |-> [main |-> "TTB", cross |-> st.dir],
      children |-> <<>>,
      last     |-> LastNone,
      par      |-> ParNew(st) ]

StackPushSoft(sb, child) == [sb EXCEPT !.last = LastSoft(sb.last, child)]

StackPushHard(sb, child) ==
    [sb EXCEPT !.last = LastHard(sb.last), !.children = Append(sb.children, child)]

StackParbreak(sb, st) ==
    LET par == ParBuild(sb.par)
        a   == LastAny(sb.last)
    IN  IF par # None
        THEN [sb EXCEPT !.par = ParNew(st),
                        !.children = (sb.children \o a.out) \o par,
                        !.last = a.last]
        ELSE [sb EXCEPT !.par = ParNew(st)]

\* Mutant of StackBuilder::build: flushes the pending soft item even when no
\* paragraph follows it.
StackBuildFlushAlways(sb) ==
    LET par == ParBuild(sb.par)
        a   == LastAny(sb.last)
    IN  [dirs |-> sb.dirs, children |-> (sb.children \o a.out) \o par]

\* StackBuilder::build: the StackNode
StackBuild(sb) ==
    LET par == ParBuild(sb.par)
        a   == LastAny(sb.last)
    IN  [ dirs     |-> sb.dirs,
          children |-> IF par # None
                       THEN (sb.children \o a.out) \o par
                       ELSE sb.children ]

---------------------------------------------------------------------------
(* PageBuilder *)

\* state.page.margins()
Margins(st) == st.page.margins

PageNew(st, hard) ==
    [size |-> st.page.size, padding |-> Margins(st), hard |-> hard]

\* Mutant of PageBuilder::build: keep alone preserves an empty page.
PageBuildKeepOnly(pg, child, keep) ==
    IF child.children # <<>> \/ keep
    THEN Some([size |-> pg.size,
               child |-> [padding |-> pg.padding, child |-> child]])
    ELSE None

\* PageBuilder::build: Option<PageRun>
PageBuild(pg, child, keep) ==
    IF child.children # <<>> \/ (keep /\ pg.hard)
    THEN Some([size |-> pg.size,
               child |-> [padding |-> pg.padding, child |-> child]])
    ELSE None

---------------------------------------------------------------------------
(* ExecContext *)

Init ==
    /\ state = BaseState
    /\ diags = {}
    /\ tree = <<>>
    /\ page = Some(PageNew(BaseState, TRUE))
    /\ stack = StackNew(BaseState)
    /\ frames = <<>>
    /\ ret = None
    /\ status = "running"
    /\ steps = 0

\* The evaluator may call the context: it is neither consumed by finish nor
\* aborted, and the bound on the number of calls is not reached.
Running == status = "running" /\ steps < MaxEvents

Tick == steps' = steps + 1

\* crate::parse::is_newline
IsNewline(c) == c \in {"\n", "\r"}

\* Scanner::eat_merging_crlf: the character eaten and the rest of the input.
EatMergingCrlf(rest) ==
    IF Len(rest) >= 2 /\ rest[1] = "\r" /\ rest[2] = "\n"
    THEN [c |-> "\n", rest |-> SubSeq(rest, 3, Len(rest))]
    ELSE [c |-> rest[1], rest |-> SubSeq(rest, 2, Len(rest))]

\* ExecContext::linebreak on the open paragraph
CtxLinebreak(pb) == ParPushHard(pb, ParLinebreak)

\* The loop of ExecContext::push_text: `rest` is what the scanner has not
\* eaten, `text` the buffer of the current line.
RECURSIVE ScanText(_, _, _, _)
ScanText(pb, rest, text, st) ==
    IF rest = <<>>
    THEN ParPushText(pb, text, st)
    ELSE LET e == EatMergingCrlf(rest)
         IN  IF IsNewline(e.c)
             THEN ScanText(CtxLinebreak(ParPushText(pb, text, st)), e.rest, <<>>, st)
             ELSE ScanText(pb, e.rest, Append(text, e.c), st)

\* Mutant of ExecContext::push_text: the buffer is flushed at a line boundary
\* but not emptied (no mem::take).
RECURSIVE ScanTextNoTake(_, _, _, _)
ScanTextNoTake(pb, rest, text, st) ==
    IF rest = <<>>
    THEN ParPushText(pb, text, st)
    ELSE LET e == EatMergingCrlf(rest)
         IN  IF IsNewline(e.c)
             THEN ScanTextNoTake(CtxLinebreak(ParPushText(pb, text, st)), e.rest, text, st)
             ELSE ScanTextNoTake(pb, e.rest, Append(text, e.c), st)

CtxPushTextNoTake(pb, text, st) == ScanTextNoTake(pb, text, <<>>, st)

\* ExecContext::push_text on the open paragraph
CtxPushText(pb, text, st) == ScanText(pb, text, <<>>, st)

\* ExecContext::push on the open paragraph
CtxPush(pb, node, st) == ParPush(pb, ParAny(node, st.aligns.cross))

\* Mutant of ExecContext::push_word_space: pushes the spacing as a hard item.
CtxPushWordSpaceHard(pb, st) == ParPushHard(pb, ParSpacingChild(WordSpacing(st)))

\* ExecContext::push_word_space on the open paragraph
CtxPushWordSpace(pb, st) == ParPushSoft(pb, ParSpacingChild(WordSpacing(st)))

\* Mutant of ExecContext::push_spacing: block spacing goes the soft path.
CtxPushSpacingSoft(sb, axis, amount, st) ==
    IF axis = "Main"
    THEN StackPushSoft(StackParbreak(sb, st), StackSpacing(amount))
    ELSE [sb EXCEPT !.par = ParPushHard(sb.par, ParSpacingChild(amount))]

\* ExecContext::push_spacing on the stack builder
CtxPushSpacing(sb, axis, amount, st) ==
    IF axis = "Main"
    THEN StackPushHard(StackParbreak(sb, st), StackSpacing(amount))
    ELSE [sb EXCEPT !.par = ParPushHard(sb.par, ParSpacingChild(amount))]

\* Mutant of ExecContext::parbreak: pushes the spacing as a hard item.
CtxParbreakHard(sb, st) ==
    StackPushHard(StackParbreak(sb, st), StackSpacing(ParSpacing(st)))

\* ExecContext::parbreak on the stack builder
CtxParbreak(sb, st) ==
    StackPushSoft(StackParbreak(sb, st), StackSpacing(ParSpacing(st)))

\* The diagnostic of a page break without a page context.
PageDiag(source) ==
    [level |-> "error", span |-> source,
     message |-> "cannot modify page from here"]

\* Mutant of ExecContext::pagebreak: swaps the stack builder before looking
\* for the page context.
CtxPagebreakResetStack(keep, hard, source) ==
    IF page # None
    THEN /\ page' = Some(PageNew(state, hard))
         /\ stack' = StackNew(state)
         /\ tree' = tree \o PageBuild(page[1], StackBuild(stack), keep)
         /\ diags' = diags
    ELSE /\ diags' = diags \cup {PageDiag(source)}
         /\ stack' = StackNew(state)
         /\ UNCHANGED <<page, tree>>

\* Mutant of ExecContext::pagebreak: builds the page from the new builder, so
\* that the hard argument of this call decides.
CtxPagebreakNewHard(keep, hard, source) ==
    IF page # None
    THEN /\ page' = Some(PageNew(state, hard))
         /\ stack' = StackNew(state)
         /\ tree' = tree \o PageBuild([page[1] EXCEPT !.hard = hard],
                                       StackBuild(stack), keep)
         /\ diags' = diags
    ELSE /\ diags' = diags \cup {PageDiag(source)}
         /\ UNCHANGED <<page, stack, tree>>

\* Mutant of ExecContext::pagebreak: the page that is closed takes size and
\* margins from the state at this call.
CtxPagebreakStateGeometry(keep, hard, source) ==
    IF page # None
    THEN /\ page' = Some(PageNew(state, hard))
         /\ stack' = StackNew(state)
         /\ tree' = tree \o PageBuild(PageNew(state, page[1].hard),
                                       StackBuild(stack), keep)
         /\ diags' = diags
    ELSE /\ diags' = diags \cup {PageDiag(source)}
         /\ UNCHANGED <<page, stack, tree>>

\* ExecContext::pagebreak: the fields it writes.
CtxPagebreak(keep, hard, source) ==
    IF page # None
    THEN /\ page' = Some(PageNew(state, hard))
         /\ stack' = StackNew(state)
         /\ tree' = tree \o PageBuild(page[1], StackBuild(stack), keep)
         /\ diags' = diags
    ELSE /\ diags' = diags \cup {PageDiag(source)}
         /\ UNCHANGED <<page, stack, tree>>

---------------------------------------------------------------------------
(* The calls of the evaluator, one action each. *)

\* The diagnostics a caller hands to diag: an error at a span.
Diags == {[level |-> "error", span |-> sp, message |-> "custom"] : sp \in Spans}

\* ExecContext::diag: inserts the diagnostic into the set.
Diag(d) ==
    /\ Running /\ Tick
    /\ diags' = diags \cup {d}
    /\ UNCHANGED <<state, tree, page, stack, frames, ret, status>>

SetMonospace ==
    /\ Running /\ Tick
    /\ Len(state.families) < MaxFamilies
    /\ state' = [state EXCEPT !.families = <<"Monospace">> \o state.families]
    /\ UNCHANGED <<diags, tree, page, stack, frames, ret, status>>

\* Library code assigns the public field `state`: alignment, font size, page.
\* Next draws only values other than the current one: assigning the current
\* value changes nothing.
SetAlign(a) ==
    /\ Running /\ Tick
    /\ state' = [state EXCEPT !.aligns.cross = a]
    /\ UNCHANGED <<diags, tree, page, stack, frames, ret, status>>

SetFontSize(s) ==
    /\ Running /\ Tick
    /\ state' = [state EXCEPT !.size = s]
    /\ UNCHANGED <<diags, tree, page, stack, frames, ret, status>>

SetPage(p) ==
    /\ Running /\ Tick
    /\ state' = [state EXCEPT !.page = p]
    /\ UNCHANGED <<diags, tree, page, stack, frames, ret, status>>

Push(node) ==
    /\ Running /\ Tick
    /\ stack' = [stack EXCEPT !.par = CtxPush(stack.par, node, state)]
    /\ UNCHANGED <<state, diags, tree, page, frames, ret, status>>

PushWordSpace ==
    /\ Running /\ Tick
    /\ stack' = [stack EXCEPT !.par = CtxPushWordSpace(stack.par, state)]
    /\ UNCHANGED <<state, diags, tree, page, frames, ret, status>>

PushText(text) ==
    /\ Running /\ Tick
    /\ stack' = [stack EXCEPT !.par = CtxPushText(stack.par, text, state)]
    /\ UNCHANGED <<state, diags, tree, page, frames, ret, status>>

PushSpacing(axis, amount) ==
    /\ Running /\ Tick
    /\ stack' = CtxPushSpacing(stack, axis, amount, state)
    /\ UNCHANGED <<state, diags, tree, page, frames, ret, status>>

Linebreak ==
    /\ Running /\ Tick
    /\ stack' = [stack EXCEPT !.par = CtxLinebreak(stack.par)]
    /\ UNCHANGED <<state, diags, tree, page, frames, ret, status>>

Parbreak ==
    /\ Running /\ Tick
    /\ stack' = CtxParbreak(stack, state)
    /\ UNCHANGED <<state, diags, tree, page, frames, ret, status>>

Pagebreak(keep, hard, source) ==
    /\ Running /\ Tick
    /\ CtxPagebreak(keep, hard, source)
    /\ UNCHANGED <<state, frames, ret, status>>

\* Mutant of exec_group: leaves the page context in place.
ExecGroupEnterKeepPage ==
    /\ Running /\ Tick
    /\ Len(frames) < MaxDepth
    /\ frames' = Append(frames, [snapshot |-> state, page |-> page, stack |-> stack])
    /\ stack' = StackNew(state)
    /\ UNCHANGED <<state, diags, tree, page, ret, status>>

\* exec_group up to the call of template.exec: the locals snapshot, page and
\* stack live in the frame of the call.
ExecGroupEnter ==
    /\ Running /\ Tick
    /\ Len(frames) < MaxDepth
    /\ frames' = Append(frames, [snapshot |-> state, page |-> page, stack |-> stack])
    /\ page' = None
    /\ stack' = StackNew(state)
    /\ UNCHANGED <<state, diags, tree, ret, status>>

\* Mutant of exec_group: does not restore the snapshot.
ExecGroupExitNoRestore ==
    /\ Running /\ Tick
    /\ frames # <<>>
    /\ page' = Top(frames).page
    /\ stack' = Top(frames).stack
    /\ ret' = Some(StackBuild(stack))
    /\ frames' = SubSeq(frames, 1, Len(frames) - 1)
    /\ UNCHANGED <<state, diags, tree, status>>

\* Mutant of exec_group: builds the group's stack but does not put the outer
\* stack builder back.
ExecGroupExitKeepStack ==
    /\ Running /\ Tick
    /\ frames # <<>>
    /\ state' = Top(frames).snapshot
    /\ page' = Top(frames).page
    /\ ret' = Some(StackBuild(stack))
    /\ frames' = SubSeq(frames, 1, Len(frames) - 1)
    /\ UNCHANGED <<stack, diags, tree, status>>

\* exec_group after template.exec has returned; ret is the node it returns.
ExecGroupExit ==
    /\ Running /\ Tick
    /\ frames # <<>>
    /\ LET f == Top(frames)
       IN  /\ state' = f.snapshot
           /\ page' = f.page
           /\ stack' = f.stack
           /\ ret' = Some(StackBuild(stack))
    /\ frames' = SubSeq(frames, 1, Len(frames) - 1)
    /\ UNCHANGED <<diags, tree, status>>

\* Mutant of ExecContext::finish: closes the last page with keep = false.
FinishNoKeep ==
    /\ Running /\ Tick
    /\ \/ /\ page = None
          /\ status' = "panicked"
          /\ UNCHANGED <<state, diags, tree, page, stack, frames, ret>>
       \/ /\ page # None
          /\ CtxPagebreak(FALSE, FALSE, DefaultSpan)
          /\ status' = "finished"
          /\ UNCHANGED <<state, frames, ret>>

\* finish: the assertion, then the last page break; the context is consumed.
Finish ==
    /\ Running /\ Tick
    /\ \/ /\ page = None
          /\ status' = "panicked"
          /\ UNCHANGED <<state, diags, tree, page, stack, frames, ret>>
       \/ /\ page # None
          /\ CtxPagebreak(TRUE, FALSE, DefaultSpan)
          /\ status' = "finished"
          /\ UNCHANGED <<state, frames, ret>>

Next ==
    \/ \E d \in Diags : Diag(d)
    \/ SetMonospace
    \/ \E a \in Aligns \ {state.aligns.cross} : SetAlign(a)
    \/ \E s \in FontSizes \ {state.size} : SetFontSize(s)
    \/ \E p \in Pages \ {state.page} : SetPage(p)
    \/ \E n \in Nodes : Push(n)
    \/ PushWordSpace
    \/ \E t \in Texts : PushText(t)
    \/ \E axis \in {"Main", "Cross"}, amount \in Amounts : PushSpacing(axis, amount)
    \/ Linebreak
    \/ Parbreak
    \/ \E keep \in BOOLEAN, hard \in BOOLEAN, source \in Spans :
          Pagebreak(keep, hard, source)
    \/ ExecGroupEnter
    \/ ExecGroupExit
    \/ Finish

Spec == Init /\ [][Next]_vars

---------------------------------------------------------------------------
(* Vocabulary of the properties. *)

\* Every block node StackBuilder::build has produced (the pages of the tree,
\* the node the last exec_group returned) or would produce from a builder
\* that is live (the active one, the ones swapped out by exec_group).
BuiltBlocks ==
    {tree[i].child.child : i \in 1..Len(tree)}
        \cup {ret[i] : i \in 1..Len(ret)}
        \cup {StackBuild(stack)}
        \cup {StackBuild(frames[i].stack) : i \in 1..Len(frames)}

IsSpacing(c) == c.kind = "Spacing"
IsParChild(c) == c.kind = "Any" /\ c.node.type = "Par"
IsContent(c) == c.kind \in {"Text", "Any"}

\* The paragraph nodes of a block node.
ParsOf(blk) ==
    {blk.children[i].node : i \in {j \in 1..Len(blk.children) :
                                       IsParChild(blk.children[j])}}

BuiltPars == UNION {ParsOf(blk) : blk \in BuiltBlocks}

\* A spacing item that came through the soft path: every amount given to
\* push_spacing is in Amounts, no resolved paragraph or word spacing is.
IsSoftSpacing(c) == IsSpacing(c) /\ c.amount \notin Amounts
IsHardSpacing(c) == IsSpacing(c) /\ c.amount \in Amounts

NumSpacing(blk) ==
    Cardinality({i \in 1..Len(blk.children) : IsSpacing(blk.children[i])})

IsPrefix(s, t) == Len(s) <= Len(t) /\ SubSeq(t, 1, Len(s)) = s

---------------------------------------------------------------------------
(* C1 - scope isolation *)

\* C1: the formatting state right after exec_group returns is the state at
\* the moment it was entered: the snapshot taken on entry is the state of
\* that moment, no call made inside the group alters the snapshots of the
\* groups in progress, and the return installs the innermost snapshot.
C1_ScopeIsolation ==
    [][ /\ Len(frames') > Len(frames) =>
              /\ Top(frames').snapshot = state
              /\ IsPrefix(frames, frames')
        /\ Len(frames') = Len(frames) => frames' = frames
        /\ Len(frames') < Len(frames) =>
              /\ state' = Top(frames).snapshot
              /\ IsPrefix(frames', frames) ]_vars

\* A group has returned at top level after four calls, the state is the base
\* state again, and the text pushed inside carries other properties or another
\* alignment: the state was changed inside the group.
C1_Witness ==
    /\ steps = 4 /\ frames = <<>> /\ ret # None /\ state = BaseState
    /\ \E par \in ParsOf(ret[1]) : \E i \in 1..Len(par.children) :
          /\ par.children[i].kind = "Text"
          /\ \/ par.children[i].props # ResolveProps(BaseState)
             \/ par.children[i].align # BaseState.aligns.cross

---------------------------------------------------------------------------
(* C2 - page break without a page context *)

\* C2: a pagebreak called while no page context is active leaves the tree,
\* the absent page context and the active stack builder as they are, records
\* a diagnostic with the source location, and the context keeps running.
C2_PagebreakInGroupIsNoOp ==
    [][ \A keep \in BOOLEAN, hard \in BOOLEAN, source \in Spans :
          (page = None /\ Pagebreak(keep, hard, source)) =>
              /\ tree' = tree /\ page' = None /\ stack' = stack
              /\ state' = state /\ frames' = frames
              /\ diags' = diags \cup {PageDiag(source)}
              /\ \E d \in diags' : d.span = source
              /\ status' = "running" ]_vars

\* Two groups deep, with content in the open paragraph, a page break with
\* source s2 has been refused.
C2_Witness ==
    /\ Len(frames) = 2 /\ page = None
    /\ stack.par.children # <<>>
    /\ PageDiag("s2") \in diags

---------------------------------------------------------------------------
(* C3 - page breaks on an empty page *)

EmptyPageAtTop ==
    page # None /\ frames = <<>> /\ StackBuild(stack).children = <<>>

EmptyRunAppended ==
    /\ Len(tree') = Len(tree) + 1
    /\ IsPrefix(tree, tree')
    /\ Top(tree').child.child.children = <<>>

\* C3 as stated: on an empty page at top level pagebreak(false, true) appends
\* no Page Run and pagebreak(true, true) appends exactly one with an empty
\* block, whatever page breaks came before.
C3_Original ==
    [][ \A source \in Spans :
          /\ (EmptyPageAtTop /\ Pagebreak(FALSE, TRUE, source)) => tree' = tree
          /\ (EmptyPageAtTop /\ Pagebreak(TRUE, TRUE, source)) => EmptyRunAppended
      ]_vars

\* C3 amended: on an empty page at top level pagebreak(false, true) appends
\* no Page Run; pagebreak(true, true) appends exactly one Page Run with an
\* empty block if the page being closed was opened hard, and none if it was
\* opened by a page break with hard = false.
C3_EmptyPage ==
    [][ \A source \in Spans :
          /\ (EmptyPageAtTop /\ Pagebreak(FALSE, TRUE, source)) => tree' = tree
          /\ (EmptyPageAtTop /\ Pagebreak(TRUE, TRUE, source)) =>
                IF page[1].hard THEN EmptyRunAppended ELSE tree' = tree
      ]_vars

\* The context is still running, the last page emitted is an empty one (kept
\* by a page break with keep = true), and the page now open was opened hard.
C3_Witness ==
    /\ status = "running" /\ frames = <<>>
    /\ tree # <<>> /\ Top(tree).child.child.children = <<>>
    /\ page[1].hard

---------------------------------------------------------------------------
(* C4 - the page emission rule *)

\* C4: a pagebreak(keep, hard) with a page context appends exactly one Page
\* Run (the built block, with the size and margins of the page being closed)
\* iff the block has a child or keep holds and the page being closed was
\* opened hard; otherwise the tree is unchanged.  Either way the page and
\* stack builders are fresh ones and the new page carries the hard argument.
C4_EmissionRule ==
    [][ \A keep \in BOOLEAN, hard \in BOOLEAN, source \in Spans :
          (page # None /\ Pagebreak(keep, hard, source)) =>
              LET blk  == StackBuild(stack)
                  emit == blk.children # <<>> \/ (keep /\ page[1].hard)
              IN  /\ emit =>
                        /\ Len(tree') = Len(tree) + 1
                        /\ IsPrefix(tree, tree')
                        /\ Top(tree').child.child = blk
                        /\ Top(tree').size = page[1].size
                        /\ Top(tree').child.padding = page[1].padding
                  /\ ~emit => tree' = tree
                  /\ page' # None /\ page'[1].hard = hard
                  /\ page'[1].size = state.page.size
                  /\ stack'.children = <<>> /\ stack'.par.children = <<>>
                  /\ stack'.last = LastNone /\ stack'.par.last = LastNone
      ]_vars

\* The tree holds a page with content followed by an empty page, and the page
\* now open was opened by a page break with hard = false.
C4_Witness ==
    /\ status = "running" /\ Len(tree) = 2
    /\ tree[1].child.child.children # <<>>
    /\ tree[2].child.child.children = <<>>
    /\ ~page[1].hard

---------------------------------------------------------------------------
(* C5 - the page context and the nesting depth *)

\* C5: the page context is absent exactly while an exec_group is in progress;
\* finish returns a tree only at top level and aborts on its assertion only
\* inside a group.
C5_PageIffTopLevel ==
    /\ (page = None) <=> (frames # <<>>)
    /\ status = "finished" => frames = <<>>
    /\ status = "panicked" => frames # <<>>

\* finish has returned the tree after a group, in which a page break was
\* refused, had returned.
C5_Witness ==
    /\ status = "finished" /\ ret # None /\ tree # <<>>
    /\ \E source \in Spans : PageDiag(source) \in diags

---------------------------------------------------------------------------
(* C6 - consecutive paragraph breaks *)

\* k consecutive parbreak() calls on the stack builder, the state unchanged.
RECURSIVE Parbreaks(_, _, _)
Parbreaks(sb, st, k) ==
    IF k = 0 THEN sb ELSE Parbreaks(CtxParbreak(sb, st), st, k - 1)

\* The block built once content follows on the stack builder.
BuildAfterText(sb, st) ==
    StackBuild([sb EXCEPT !.par = CtxPushText(sb.par, <<"a">>, st)])

MaxBreaks == 3

\* C6: from every reachable builder, k >= 1 consecutive parbreak() calls leave
\* the builder, and so the block built from it, whether or not content
\* follows, as a single parbreak() does; and they add at most one spacing
\* item to the block.
C6_ParbreakIdempotent ==
    \A k \in 1..MaxBreaks :
        LET one  == Parbreaks(stack, state, 1)
            many == Parbreaks(stack, state, k)
        IN  /\ many = one
            /\ StackBuild(many) = StackBuild(one)
            /\ BuildAfterText(many, state) = BuildAfterText(one, state)
            /\ NumSpacing(StackBuild(many)) <= NumSpacing(StackBuild(stack)) + 1
            /\ NumSpacing(BuildAfterText(many, state))
                  <= NumSpacing(StackBuild(stack)) + 1

\* A paragraph break has been requested after content and is pending: the
\* paragraph is closed, and one more parbreak() changes nothing.
C6_Witness ==
    /\ stack.last.tag = "Soft"
    /\ stack.par.children = <<>>
    /\ stack.children # <<>>
    /\ CtxParbreak(stack, state) = stack
    /\ NumSpacing(BuildAfterText(stack, state)) = NumSpacing(StackBuild(stack)) + 1

---------------------------------------------------------------------------
(* C7 - adjacent spacing items in a block *)

AdjacentSpacings(blk) ==
    {i \in 1..(Len(blk.children) - 1) :
        IsSpacing(blk.children[i]) /\ IsSpacing(blk.children[i + 1])}

\* C7 as stated: no block node has two adjacent spacing children.
C7_Original == \A blk \in BuiltBlocks : AdjacentSpacings(blk) = {}

\* C7 amended: two spacing children of a block node are adjacent only if both
\* were inserted by push_spacing on the main axis, which appends its item
\* unconditionally; a spacing item from parbreak is never adjacent to another
\* spacing item.
C7_AdjacentOnlyHard ==
    \A blk \in BuiltBlocks : \A i \in AdjacentSpacings(blk) :
        IsHardSpacing(blk.children[i]) /\ IsHardSpacing(blk.children[i + 1])

\* A block in which two adjacent spacing items follow a paragraph.
C7_Witness ==
    \E blk \in BuiltBlocks : \E i \in AdjacentSpacings(blk) :
        i > 1 /\ IsParChild(blk.children[i - 1])

---------------------------------------------------------------------------
(* C8 - spacing at the ends of a block *)

\* C8 as stated: no block node starts or ends with a spacing item.
C8_Original ==
    \A blk \in BuiltBlocks :
        blk.children # <<>> =>
            ~IsSpacing(blk.children[1]) /\ ~IsSpacing(Top(blk.children))

\* C8 amended: a block node starts or ends with a spacing item only if that
\* item was inserted by push_spacing on the main axis; a spacing item from
\* parbreak is never the first or the last child.
C8_EndsOnlyHard ==
    \A blk \in BuiltBlocks :
        blk.children # <<>> =>
            /\ IsSpacing(blk.children[1]) => IsHardSpacing(blk.children[1])
            /\ IsSpacing(Top(blk.children)) => IsHardSpacing(Top(blk.children))

\* The block being built starts with a spacing item, and a paragraph break is
\* pending at its end: built now, it ends with the paragraph.
C8_Witness ==
    /\ stack.last.tag = "Soft"
    /\ LET blk == StackBuild(stack)
       IN  /\ Len(blk.children) >= 2
           /\ IsSpacing(blk.children[1])
           /\ IsParChild(Top(blk.children))

---------------------------------------------------------------------------
(* C9 - soft items lie between content *)

\* Every soft spacing item of the sequence has a neighbour on both sides and
\* both satisfy Ok.
SoftBetween(children, Ok(_)) ==
    \A i \in 1..Len(children) :
        IsSoftSpacing(children[i]) =>
            /\ 1 < i /\ i < Len(children)
            /\ Ok(children[i - 1]) /\ Ok(children[i + 1])

\* C9: in every finalized node an item that came through the soft path sits
\* between two content children: a paragraph spacing between two paragraph
\* nodes, a word spacing between two text runs or inline nodes.
C9_SoftBetweenContent ==
    /\ \A blk \in BuiltBlocks : SoftBetween(blk.children, IsParChild)
    /\ \A par \in BuiltPars : SoftBetween(par.children, IsContent)

\* A word spacing lies between two content children of a paragraph whose
\* builder has a further word spacing pending at its end.
C9_Witness ==
    /\ stack.par.last.tag = "Soft"
    /\ \E i \in 1..Len(stack.par.children) : IsSoftSpacing(stack.par.children[i])

---------------------------------------------------------------------------
(* C10 - adjacent text runs are merged *)

Mergeable(a, b) ==
    /\ a.kind = "Text" /\ b.kind = "Text"
    /\ a.align = b.align /\ a.props = b.props

\* C10: no paragraph node has two consecutive text runs with the same
\* cross-axis alignment and the same resolved text properties.
C10_NoMergeableNeighbours ==
    \A par \in BuiltPars : \A i \in 1..(Len(par.children) - 1) :
        ~Mergeable(par.children[i], par.children[i + 1])

\* A paragraph with two consecutive text runs (they differ in alignment or
\* properties) of which one holds the text of two pushes.
C10_Witness ==
    \E par \in BuiltPars : \E i \in 1..(Len(par.children) - 1) :
        /\ par.children[i].kind = "Text" /\ par.children[i + 1].kind = "Text"
        /\ \/ Len(par.children[i].text) >= 2
           \/ Len(par.children[i + 1].text) >= 2

---------------------------------------------------------------------------
(* C11 - text splitting *)

\* The characters and the length of the texts given to push_text.
TextChars == {"a", "\r", "\n"}
MaxTextLen == 3
\* Number of calls of a run that ends with such a push_text.
MaxTextCalls == 3

ExampleText == <<"a", "\r", "\n", "b", "\n", "c">>

ScanTexts ==
    UNION {[1..n -> TextChars] : n \in 0..MaxTextLen} \cup {ExampleText}

\* A run of a few short calls that ends with one push_text of a text of
\* ScanTexts.
NextText ==
    \/ /\ steps < MaxTextCalls - 1
       /\ \/ \E t \in Texts : PushText(t)
          \/ PushWordSpace
          \/ \E a \in Aligns : SetAlign(a)
          \/ Parbreak
    \/ /\ steps = MaxTextCalls - 1
       /\ \E t \in ScanTexts : PushText(t)

SpecText == Init /\ [][NextText]_vars

\* Position i holds the last character of a line boundary of t: a line feed,
\* or a carriage return that no line feed follows.
IsBoundaryEnd(t, i) ==
    \/ t[i] = "\n"
    \/ t[i] = "\r" /\ ~(i < Len(t) /\ t[i + 1] = "\n")

BoundaryEnds(t) == {i \in 1..Len(t) : IsBoundaryEnd(t, i)}

\* The k-th smallest element of a set of numbers.
Kth(S, k) == CHOOSE x \in S : Cardinality({y \in S : y <= x}) = k

\* The first position of the boundary that ends at e.
BoundaryStart(t, e) ==
    IF t[e] = "\n" /\ e > 1 /\ t[e - 1] = "\r" THEN e - 1 ELSE e

\* The k-th line of t, k in 1..n+1 for n boundaries.
Line(t, k) ==
    LET ends == BoundaryEnds(t)
        n    == Cardinality(ends)
        from == IF k = 1 THEN 1 ELSE Kth(ends, k - 1) + 1
        to   == IF k = n + 1 THEN Len(t) ELSE BoundaryStart(t, Kth(ends, k)) - 1
    IN  SubSeq(t, from, to)

\* Text pushes of the lines k..n+1 of t, a forced line break before each.
RECURSIVE PushLines(_, _, _, _)
PushLines(pb, t, k, st) ==
    IF k > Cardinality(BoundaryEnds(t)) + 1
    THEN pb
    ELSE PushLines(ParPushText(ParPushHard(pb, ParLinebreak), Line(t, k), st),
                   t, k + 1, st)

NumLinebreaks(children) ==
    Cardinality({i \in 1..Len(children) : children[i].kind = "Linebreak"})

\* The characters of the text runs of a paragraph, in order.
RECURSIVE TextOf(_)
TextOf(children) ==
    IF children = <<>> THEN <<>>
    ELSE (IF children[1].kind = "Text" THEN children[1].text ELSE <<>>)
             \o TextOf(Tail(children))

NotNewline(c) == c \notin {"\n", "\r"}

\* C11: push_text(t) is a text push of the first line of t and then, for each
\* line boundary of t (a carriage return followed by a line feed being one
\* boundary), a forced line break and a text push of the next line: n
\* boundaries add n line breaks, and the characters between the boundaries
\* arrive in order.  On a fresh paragraph "a\r\nb\nc" gives text a, line
\* break, text b, line break, text c.
C11_TextSplitting ==
    [][ \A t \in ScanTexts :
          (steps = MaxTextCalls - 1 /\ PushText(t)) =>
              LET n == Cardinality(BoundaryEnds(t))
              IN  /\ stack'.par =
                        PushLines(ParPushText(stack.par, Line(t, 1), state), t, 2, state)
                  /\ NumLinebreaks(stack'.par.children)
                        = NumLinebreaks(stack.par.children) + n
                  /\ TextOf(stack'.par.children)
                        = TextOf(stack.par.children) \o SelectSeq(t, NotNewline)
                  /\ (t = ExampleText /\ stack.par.children = <<>>) =>
                        LET T(x) == ParText(<<x>>, ResolveProps(state),
                                            state.aligns.cross)
                        IN  stack'.par.children =
                              <<T("a"), ParLinebreak, T("b"), ParLinebreak, T("c")>>
      ]_vars

\* The example text has been pushed on a fresh paragraph of a block that
\* already holds a paragraph.
C11_Witness ==
    /\ steps = MaxTextCalls
    /\ stack.children # <<>>
    /\ Len(stack.par.children) = 5
    /\ TextOf(stack.par.children) = <<"a", "b", "c">>
    /\ NumLinebreaks(stack.par.children) = 2

---------------------------------------------------------------------------
(* The calls that act on the two builders of one page at the top level: *)
(* no page break, no group.                                              *)

NextBuilders ==
    \/ \E a \in Aligns \ {state.aligns.cross} : SetAlign(a)
    \/ \E s \in FontSizes \ {state.size} : SetFontSize(s)
    \/ \E n \in Nodes : Push(n)
    \/ PushWordSpace
    \/ \E t \in Texts : PushText(t)
    \/ \E axis \in {"Main", "Cross"}, amount \in Amounts : PushSpacing(axis, amount)
    \/ Linebreak
    \/ Parbreak

SpecBuilders == Init /\ [][NextBuilders]_vars

---------------------------------------------------------------------------
(* C12 - merging and separation of text pushes *)

\* Texts of two pushes and the hard inline items put between them.
PlainTexts == {<<"a">>, <<"b", "c">>}
HardItems == {ParLinebreak} \cup {ParSpacingChild(amount) : amount \in Amounts}

\* C12: from every reachable paragraph builder, two text pushes x, y with the
\* same state and nothing between them end in one text child, the text of
\* that child after the first push followed by y (x followed by y where the
\* first push opened the child); with a hard item h between them, the
\* children are those after the first push, then h, then a text child y of
\* its own.  The characters of the paragraph are the old ones, then x, then y.
C12_TextRoundTrip ==
    \A x \in PlainTexts, y \in PlainTexts :
        LET pb    == stack.par
            one   == ParPushText(pb, x, state)
            two   == ParPushText(one, y, state)
            n     == Len(one.children)
            fresh == ParText(y, ResolveProps(state), state.aligns.cross)
        IN  /\ n > 0 /\ one.children[n].kind = "Text"
            /\ two.children =
                  [one.children EXCEPT ![n].text = one.children[n].text \o y]
            /\ Len(one.children) > Len(pb.children \o LastAny(pb.last).out)
                  => two.children[n].text = x \o y
            /\ TextOf(two.children) = (TextOf(pb.children) \o x) \o y
            /\ \A h \in HardItems :
                  LET sep == ParPushText(ParPushHard(one, h), y, state)
                  IN  /\ sep.children = one.children \o <<h, fresh>>
                      /\ TextOf(sep.children) = (TextOf(pb.children) \o x) \o y

\* The open paragraph holds a text run made of two pushes, a hard spacing
\* and a further text run with the alignment and properties of the first.
C12_Witness ==
    \E i \in 1..(Len(stack.par.children) - 2) :
        LET c == stack.par.children
        IN  /\ c[i].kind = "Text" /\ c[i].text = <<"a", "a">>
            /\ IsHardSpacing(c[i + 1])
            /\ c[i + 2].kind = "Text"
            /\ c[i + 2].align = c[i].align /\ c[i + 2].props = c[i].props

---------------------------------------------------------------------------
(* C13 - exec_group restores the builders *)

\* C13: exec_group saves the page builder and the stack builder as they are
\* on entry and starts the group on a fresh stack builder without a page
\* context; no call made inside a group changes the tree or what the groups
\* in progress have saved; on return the page builder and the stack builder
\* are the saved ones, the tree is the one of the entry, and the node
\* returned is the block built from the group's own stack builder.
C13_BuildersRestored ==
    [][ /\ Len(frames') > Len(frames) =>
              /\ Top(frames').page = page /\ Top(frames').stack = stack
              /\ IsPrefix(frames, frames')
              /\ page' = None /\ stack' = StackNew(state)
              /\ tree' = tree
        /\ (frames # <<>> /\ Len(frames') = Len(frames)) =>
              /\ tree' = tree /\ frames' = frames /\ page' = None
        /\ Len(frames') < Len(frames) =>
              /\ page' = Top(frames).page /\ stack' = Top(frames).stack
              /\ tree' = tree
              /\ ret' = Some(StackBuild(stack))
              /\ IsPrefix(frames', frames) ]_vars

\* A group has returned at top level: the node returned holds a paragraph
\* with a line break, the outer paragraph holds one text run and no line
\* break, and the page context is back.
C13_Witness ==
    /\ frames = <<>> /\ ret # None /\ page # None /\ tree = <<>>
    /\ \E par \in ParsOf(ret[1]) : NumLinebreaks(par.children) = 1
    /\ Len(stack.par.children) = 1 /\ stack.par.children[1].kind = "Text"

---------------------------------------------------------------------------
(* C14 - paragraph regions without content *)

\* The open paragraph region has had no child appended.
EmptyRegion(sb) == ParBuild(sb.par) = None

\* C14 as stated: an inline spacing request (push_word_space, or push_spacing
\* on the cross axis) in a region that has no child yet leaves the region
\* without a paragraph node: the block built is the same as before.
C14_Original ==
    [][ (/\ EmptyRegion(stack)
         /\ \/ PushWordSpace
            \/ \E amount \in Amounts : PushSpacing("Cross", amount)) =>
            /\ EmptyRegion(stack')
            /\ StackBuild(stack') = StackBuild(stack) ]_vars

\* C14 amended: push_word_space in a region that has no child yet leaves it
\* without a paragraph node, so a region that receives only word spaces
\* contributes nothing to the block; push_spacing on the cross axis appends
\* a hard spacing child, and a region that has received only that contributes
\* a paragraph node holding it.  ParBuilder::build returns a node exactly
\* when a child was appended: after every call that appends to the open
\* paragraph it returns the node with the builder's children, and on the
\* fresh builder of a new region it returns none.
C14_EmptyRegion ==
    [][ /\ PushWordSpace =>
              /\ EmptyRegion(stack') <=> EmptyRegion(stack)
              /\ EmptyRegion(stack) => StackBuild(stack') = StackBuild(stack)
        /\ \A amount \in Amounts :
              (EmptyRegion(stack) /\ PushSpacing("Cross", amount)) =>
                  LET before == StackBuild(stack).children
                      after  == StackBuild(stack').children
                  IN  /\ IsPrefix(before, after)
                      /\ Len(after) > Len(before)
                      /\ after[Len(after)] =
                            StackAny([ParNode(stack.par) EXCEPT
                                         !.children = <<ParSpacingChild(amount)>>],
                                     stack.par.aligns)
        /\ (\/ \E node \in Nodes : Push(node)
            \/ \E t \in Texts : PushText(t)
            \/ Linebreak
            \/ \E amount \in Amounts : PushSpacing("Cross", amount)) =>
              /\ Len(stack'.par.children) >= Len(stack.par.children)
              /\ stack'.par.children # <<>>
              /\ ParBuild(stack'.par) # None
              /\ ParBuild(stack'.par)[1].node.children = stack'.par.children
        /\ (\/ Parbreak
            \/ \E amount \in Amounts : PushSpacing("Main", amount)
            \/ ExecGroupEnter) =>
              /\ stack'.par.children = <<>>
              /\ EmptyRegion(stack') ]_vars

\* The block holds a paragraph whose only child is a hard spacing, a
\* paragraph break is pending after it, and the region now open has no child.
C14_Witness ==
    /\ stack.last.tag = "Soft"
    /\ EmptyRegion(stack)
    /\ \E par \in ParsOf(StackBuild(stack)) :
          Len(par.children) = 1 /\ IsHardSpacing(par.children[1])

---------------------------------------------------------------------------
(* C15 - pending soft items without content in between *)

\* The calls of the context that reach push_soft and push_hard of the two
\* builders without a content push in between: push_word_space, linebreak
\* and push_spacing(Cross) on the paragraph; parbreak and push_spacing(Main)
\* on the stack while the open paragraph is empty.
RequestedParSoft == ParSpacingChild(WordSpacing(state))
RequestedStackSoft == StackSpacing(ParSpacing(state))

\* C15 as stated (the part that fails): after a push_soft without content
\* before it, a pending item is the one requested by that call.
C15_Original ==
    [][ /\ PushWordSpace =>
              (stack'.par.last.tag = "Soft" =>
                  stack'.par.last.item = RequestedParSoft)
        /\ (EmptyRegion(stack) /\ Parbreak) =>
              (stack'.last.tag = "Soft" =>
                  stack'.last.item = RequestedStackSoft) ]_vars

\* C15 amended: for push_soft and push_hard calls on a builder with no
\* content push in between, the automaton holds at most one pending soft
\* item; the item it holds is the first soft item requested after the last
\* content push (a later push_soft leaves it in place, a push_soft with
\* nothing before it is dropped, a push_hard clears it); and a pending item
\* is not part of the node built when no content push follows.
C15_PendingSoft ==
    [][ /\ PushWordSpace =>
              /\ stack.par.last.tag = "Any" =>
                    stack'.par.last = LastSoftState(RequestedParSoft)
              /\ stack.par.last.tag # "Any" => stack'.par.last = stack.par.last
              /\ stack'.par.children = stack.par.children
        /\ (Linebreak \/ \E amount \in Amounts : PushSpacing("Cross", amount)) =>
              /\ stack'.par.last = LastNone
              /\ Len(stack'.par.children) = Len(stack.par.children) + 1
        /\ (EmptyRegion(stack) /\ Parbreak) =>
              /\ stack'.last = stack.last
              /\ stack'.children = stack.children
        /\ (~EmptyRegion(stack) /\ Parbreak) =>
              stack'.last = LastSoftState(RequestedStackSoft)
        /\ (EmptyRegion(stack) /\ \E amount \in Amounts : PushSpacing("Main", amount)) =>
              /\ stack'.last = LastNone
              /\ Len(stack'.children) = Len(stack.children) + 1
        /\ stack'.last.tag \in {"None", "Soft"}
        /\ stack'.par.last.tag \in {"None", "Any", "Soft"}
        /\ EmptyRegion(stack') => StackBuild(stack').children = stack'.children
        /\ ParBuild(stack'.par) # None =>
              ParBuild(stack'.par)[1].node.children = stack'.par.children ]_vars

\* After four calls the stack holds a pending paragraph spacing that is not
\* the one a parbreak would request now, behind one paragraph and with no
\* content in the open region.
C15_Witness ==
    /\ steps >= 4
    /\ EmptyRegion(stack)
    /\ Len(stack.children) = 1
    /\ stack.last.tag = "Soft"
    /\ stack.last.item # RequestedStackSoft
    /\ StackBuild(stack).children = stack.children

---------------------------------------------------------------------------
(* C16 - transitions of Last *)

\* The soft items the context requests: word spacing and paragraph spacing
\* at each font size.
SoftItems ==
    {ParSpacingChild(WordSpacing([BaseState EXCEPT !.size = s])) : s \in FontSizes}
        \cup {StackSpacing(ParSpacing([BaseState EXCEPT !.size = s])) : s \in FontSizes}

\* Every state of the automaton over these items.
LastStates == {LastNone, LastAnyState} \cup {LastSoftState(i) : i \in SoftItems}

\* C16: from every state of Last, those the two builders are in included, a
\* soft request in Any moves to Soft(item); a soft request in None or Soft
\* leaves the state and a pending item as they are; a hard request moves to
\* None.
C16_LastTransitions ==
    \A last \in LastStates \cup {stack.last, stack.par.last} :
        /\ LastHard(last) = [tag |-> "None"]
        /\ \A item \in SoftItems :
              /\ last.tag = "Any" =>
                    LastSoft(last, item) = [tag |-> "Soft", item |-> item]
              /\ last.tag = "None" => LastSoft(last, item) = [tag |-> "None"]
              /\ last.tag = "Soft" =>
                    /\ LastSoft(last, item).tag = "Soft"
                    /\ LastSoft(last, item).item = last.item

\* Both builders hold a pending soft item: each went from None through Any
\* to Soft.
C16_Witness ==
    /\ stack.last.tag = "Soft"
    /\ stack.par.last.tag = "Soft"
    /\ stack.last \in LastStates
    /\ stack.par.last \in LastStates

---------------------------------------------------------------------------
(* C17 - a soft item between two pieces of content is emitted once *)

\* The pending soft item of an automaton, as the sequence Last::any returns.
Pending(last) == IF last.tag = "Soft" THEN <<last.item>> ELSE <<>>

\* C17: a content push (push, push_text) leaves the paragraph's automaton in
\* Any from every prior state, so the word space requested next is held;
\* the content push after that appends the held item once, right behind the
\* earlier content and right before the new content, and nothing else that
\* is a spacing.  The same for the stack: closing a paragraph after a
\* parbreak appends the held paragraph spacing once between the two
\* paragraphs, and the parbreak after a paragraph is held, also when that
\* paragraph is the first child of the block.
C17_SoftEmittedOnce ==
    [][ /\ ((\E node \in Nodes : Push(node)) \/ (\E t \in Texts : PushText(t))) =>
              LET old == stack.par.children
                  new == stack'.par.children
                  n   == Len(old)
                  k   == Len(Pending(stack.par.last))
              IN  /\ stack'.par.last = [tag |-> "Any"]
                  /\ k = 1 =>
                        /\ IsPrefix(old, new)
                        /\ IsContent(old[n])
                        /\ new[n + 1] = stack.par.last.item
                        /\ Len(new) >= n + 2
                        /\ IsContent(new[n + 2])
                  /\ \A i \in 1..Len(new) : (i > n + k) => ~IsSpacing(new[i])
        /\ (PushWordSpace /\ stack.par.last.tag = "Any") =>
              /\ stack'.par.last = [tag |-> "Soft", item |-> RequestedParSoft]
              /\ stack'.par.children = stack.par.children
        /\ (Parbreak /\ ~EmptyRegion(stack)) =>
              /\ stack'.children =
                    (stack.children \o Pending(stack.last)) \o ParBuild(stack.par)
              /\ stack'.last = [tag |-> "Soft", item |-> RequestedStackSoft]
        /\ ~EmptyRegion(stack') =>
              StackBuild(stack').children =
                  (stack'.children \o Pending(stack'.last)) \o ParBuild(stack'.par) ]_vars

\* Text, word space, text as the first three calls on a fresh builder: the
\* paragraph holds exactly text, spacing, text.
C17_Witness ==
    /\ stack.children = <<>>
    /\ Len(stack.par.children) = 3
    /\ stack.par.children[1].kind = "Text"
    /\ IsSoftSpacing(stack.par.children[2])
    /\ stack.par.children[3].kind = "Text"
    /\ stack.par.last.tag = "Any"

---------------------------------------------------------------------------
(* C18 - block spacing is always emitted *)

\* C18 as stated: push_spacing on the main axis closes the open paragraph
\* and appends one spacing child with the requested amount, and a paragraph
\* spacing that is pending from an earlier parbreak is discarded by it: the
\* stack gets the closed paragraph, if any, and the spacing, nothing else.
C18_Original ==
    [][ \A amount \in Amounts : PushSpacing("Main", amount) =>
            /\ stack'.children =
                  (stack.children \o ParBuild(stack.par))
                      \o <<[kind |-> "Spacing", amount |-> amount]>>
            /\ stack'.last = [tag |-> "None"]
            /\ stack'.par.children = <<>> ]_vars

\* C18 amended: push_spacing on the main axis closes the open paragraph,
\* then appends one spacing child with the requested amount, whatever came
\* before.  A paragraph spacing that is pending is discarded when the open
\* paragraph is empty; when the open paragraph has children, closing it
\* emits the pending spacing before the paragraph, between the two
\* paragraphs.  The new open paragraph is empty, so later content lies in
\* another paragraph behind the spacing; the built block ends with the
\* spacing if nothing follows; and no later call on the same builder
\* removes or changes a child of the stack.
C18_BlockSpacing ==
    [][ /\ \A amount \in Amounts : PushSpacing("Main", amount) =>
              LET old    == stack.children
                  new    == stack'.children
                  closed == ParBuild(stack.par)
              IN  /\ closed # None =>
                        new = ((old \o Pending(stack.last)) \o closed)
                                  \o <<[kind |-> "Spacing", amount |-> amount]>>
                  /\ closed = None =>
                        new = old \o <<[kind |-> "Spacing", amount |-> amount]>>
                  /\ stack'.last = [tag |-> "None"]
                  /\ stack'.par = ParNew(state)
                  /\ stack'.par.children = <<>>
                  /\ StackBuild(stack').children = new
                  /\ NumSpacing(StackBuild(stack')) =
                        NumSpacing(StackBuild(stack)) + 1
        /\ (frames' = frames /\ tree' = tree) =>
              IsPrefix(stack.children, stack'.children) ]_vars

\* The block is paragraph, paragraph spacing, paragraph, block spacing: the
\* spacing of a parbreak was pending when push_spacing closed a paragraph
\* with content, and it was emitted between the two paragraphs.
C18_Witness ==
    /\ stack.last.tag = "None"
    /\ stack.par.children = <<>>
    /\ Len(stack.children) = 4
    /\ IsParChild(stack.children[1])
    /\ IsSoftSpacing(stack.children[2])
    /\ IsParChild(stack.children[3])
    /\ IsHardSpacing(stack.children[4])

---------------------------------------------------------------------------
(* C19 - a page keeps the geometry it was opened with *)

\* A step of pagebreak, called directly or by finish, at the top level.
ClosesPage ==
    /\ page # None
    /\ \/ \E keep \in BOOLEAN, hard \in BOOLEAN, source \in Spans :
              Pagebreak(keep, hard, source)
       \/ Finish

\* C19: the first page is opened with the size and margins of the initial
\* state; a pagebreak opens the next page with those of the state at that
\* call; no other call changes the open page (exec_group puts it aside and
\* back); and a run that is emitted has the size and margins of the page
\* builder that is closed, not those of the state at the closing call.
C19_PageGeometry ==
    [][ /\ steps = 0 => page = <<[size |-> BaseState.page.size,
                                  padding |-> BaseState.page.margins,
                                  hard |-> TRUE]>>
        /\ ClosesPage =>
              /\ page'[1].size = state.page.size
              /\ page'[1].padding = state.page.margins
              /\ Len(tree') <= Len(tree) + 1
              /\ IsPrefix(tree, tree')
        /\ tree' # tree =>
              /\ ClosesPage
              /\ tree'[Len(tree')].size = page[1].size
              /\ tree'[Len(tree')].child.padding = page[1].padding
        /\ (frames' = frames /\ ~ClosesPage) => page' = page
        /\ Len(frames') > Len(frames) =>
              page' = <<>> /\ Top(frames').page = page
        /\ Len(frames') < Len(frames) => page' = Top(frames).page ]_vars

\* Two runs are emitted with different size and margins: the geometry was
\* changed while the first page was open and shows in the second only.
C19_Witness ==
    /\ Len(tree) = 2
    /\ tree[1].size = BaseState.page.size
    /\ tree[1].child.padding = BaseState.page.margins
    /\ tree[2].size # tree[1].size
    /\ tree[2].child.padding # tree[1].child.padding
    /\ tree[2].size = state.page.size

---------------------------------------------------------------------------
(* C20 - the last page *)

\* The run of a page with the given block.
PageRun(pg, blk) == [size |-> pg.size, child |-> [padding |-> pg.padding, child |-> blk]]

\* C20: finish closes the open page with keep = true: the run of the page is
\* emitted if and only if its block has children or the page was opened
\* hard.  The page of a new context is hard, so finish as the first call
\* gives a tree of one run with an empty block.  A pagebreak opens a page
\* with its hard argument and an empty stack; finish right after it emits
\* one run with an empty block if hard was true and none if hard was false.
C20_LastPage ==
    [][ /\ (Finish /\ page # None) =>
              LET blk == StackBuild(stack)
              IN  /\ status' = "finished"
                  /\ (blk.children # <<>> \/ page[1].hard) =>
                        tree' = Append(tree, PageRun(page[1], blk))
                  /\ ~(blk.children # <<>> \/ page[1].hard) => tree' = tree
        /\ (Finish /\ steps = 0) =>
              /\ Len(tree') = 1
              /\ tree'[1].child.child.children = <<>>
        /\ \A keep \in BOOLEAN, hard \in BOOLEAN, source \in Spans :
              (Pagebreak(keep, hard, source) /\ page # None) =>
                  /\ page'[1].hard = hard
                  /\ StackBuild(stack').children = <<>> ]_vars

\* The context has finished with two runs: a page with content and, behind
\* it, the empty page a hard pagebreak opened.
C20_Witness ==
    /\ status = "finished"
    /\ Len(tree) = 2
    /\ tree[1].child.child.children # <<>>
    /\ tree[2].child.child.children = <<>>

====
